---- MODULE Spec2Model ----
(***************************************************************************)
(* ReelMe recommendation engine: preference-profile construction, group   *)
(* aggregation, candidate retrieval, scoring and the ranking utility.     *)
(*                                                                         *)
(* JavaScript numbers are modelled as exact rationals [n, d] (d > 0), with *)
(* NaN as the value whose denominator is 0.  Floating-point rounding is    *)
(* not modelled.  Dates are modelled at year granularity in UTC.           *)
(***************************************************************************)
EXTENDS Integers, Sequences, FiniteSets, TLC

VARIABLES
    now,             \* calendar year of the process clock (new Date().getFullYear())
    seedMovies,      \* argument of buildPreferenceProfile
    selectedGenres,  \* argument of buildPreferenceProfile
    calls,           \* log of the buildPreferenceProfile calls made so far
    allUserPreferences,  \* argument of generateGroupRecommendations
    groupRun,        \* <<>> or the one aggregation made: its profiles and result
    fetchArgs,       \* arguments of fetchCandidateMovies: profile, maxMovies
    fetchPc,         \* "idle", "awaiting" (Promise.all), "returned" or "threw"
    requests,        \* the discoverMovies promises, by index: status, params, movies
    fetchResult,     \* the sequence fetchCandidateMovies returned
    scoreArgs,       \* arguments of scoreMovie: movie, profile
    scoreLog,        \* log of the scoreMovie calls made so far: movie, score
    rankArgs,        \* arguments of rankMovies: movies, selectedGenres
    rankResult,      \* <<>> or the one array rankMovies returned
    room,            \* the room document in the store
    handlers,        \* the API requests made so far, in arrival order
    budget,          \* by kind, the requests the clients have yet to make
    recArgs,         \* a recommendation call's inputs: preferences, retrieved pool
    recResult        \* <<>> or the one movie sequence the call returned

profileVars == <<seedMovies, selectedGenres, calls>>

groupVars == <<allUserPreferences, groupRun>>

fetchVars == <<fetchArgs, fetchPc, requests, fetchResult>>

scoreVars == <<scoreArgs, scoreLog>>

rankVars == <<rankArgs, rankResult>>

roomVars == <<room, handlers, budget>>

recVars == <<recArgs, recResult>>

vars == <<now, seedMovies, selectedGenres, calls, allUserPreferences, groupRun,
          fetchArgs, fetchPc, requests, fetchResult, scoreArgs, scoreLog,
          rankArgs, rankResult, room, handlers, budget, recArgs, recResult>>

----------------------------------------------------------------------------
(* Bounds *)

\* Calendar years the process clock ranges over.
ClockYears == 2021..2026

\* Calls of buildPreferenceProfile made on the same arguments.
MaxCalls == 2

\* Participants whose preferences are aggregated.
MaxUsers == 3

\* Movies on one page of a discovery response.
MaxPageLen == 2

\* Movie ids the catalogue returns in discovery responses.
PageIds == {1, 2}

\* Target pool sizes fetchCandidateMovies is called with (1, 2 and 3 pages).
TargetSizes == {1, 25, 45}

\* Genre ids on one scored movie.
MaxGenres == 3

\* Calls of scoreMovie against one profile.
MaxScoreCalls == 2

\* Movies in the pool handed to rankMovies.
MaxRankLen == 3

\* Requests of each kind made to a room, and requests in flight at once.
MaxJoins == 2

MaxLeaves == 1

MaxVotes == 2

MaxSaves == 2

MaxGenerates == 1

MaxRequests == 4

\* Join requests made to a room that fills up.
CrowdJoins == 6

MaxInFlight == 2

\* Largest number of requests of a call whose pages vary in content.
MaxVariedPages == 3

\* Longest retrieved pool a recommendation call is given.
MaxPoolLen == 3

----------------------------------------------------------------------------
(* JavaScript numbers *)

RECURSIVE GCD(_, _)
GCD(a, b) == IF b = 0 THEN a ELSE GCD(b, a % b)

Abs(i) == IF i < 0 THEN -i ELSE i

NaN == [n |-> 0, d |-> 0]

IsNaN(x) == x.d = 0

\* The rational n/d in lowest terms (d > 0).
R(n, d) ==
    LET g == GCD(Abs(n), d)
    IN  [n |-> n \div g, d |-> d \div g]

Num(i) == [n |-> i, d |-> 1]

RAdd(x, y) ==
    IF IsNaN(x) \/ IsNaN(y) THEN NaN ELSE R(x.n * y.d + y.n * x.d, x.d * y.d)

RSub(x, y) ==
    IF IsNaN(x) \/ IsNaN(y) THEN NaN ELSE R(x.n * y.d - y.n * x.d, x.d * y.d)

RMulInt(x, k) == IF IsNaN(x) THEN NaN ELSE R(x.n * k, x.d)

RDivInt(x, k) ==
    IF IsNaN(x) \/ k = 0 THEN NaN ELSE R(x.n, x.d * k)

\* x < y; false when either side is NaN, as in JavaScript.
RLt(x, y) == ~IsNaN(x) /\ ~IsNaN(y) /\ x.n * y.d < y.n * x.d

RLe(x, y) == ~IsNaN(x) /\ ~IsNaN(y) /\ x.n * y.d <= y.n * x.d

MathMax(x, y) ==
    IF IsNaN(x) \/ IsNaN(y) THEN NaN ELSE IF RLt(x, y) THEN y ELSE x

MathMin(x, y) ==
    IF IsNaN(x) \/ IsNaN(y) THEN NaN ELSE IF RLt(y, x) THEN y ELSE x

MathAbs(x) == IF IsNaN(x) THEN NaN ELSE [n |-> Abs(x.n), d |-> x.d]

\* Math.round(total / count) for a non-negative integer total: round half up.
MathRoundDiv(total, count) == (2 * total + count) \div (2 * count)

\* if (x) ... : 0 and NaN are falsy.
Truthy(x) == ~IsNaN(x) /\ x.n # 0

IntMax(a, b) == IF a < b THEN b ELSE a

IntMin(a, b) == IF a < b THEN a ELSE b

Range(s) == {s[i] : i \in DOMAIN s}

SetMin(S) == CHOOSE x \in S : \A y \in S : x <= y

SetMax(S) == CHOOSE x \in S : \A y \in S : x >= y

----------------------------------------------------------------------------
(* Seed movies *)

\* Own-property reads of a fresh object literal that find an inherited
\* Object.prototype member instead of undefined.
InheritedKeys == {"constructor"}

Seed(id, year, rating10, runtime, genres, kws) ==
    [id |-> id, release_year |-> year, vote_average |-> R(rating10, 10),
     runtime |-> runtime, genre_ids |-> genres, keywords |-> kws]

\* Enriched seed movies the catalogue can return (fetchSeedMovies' output).
SeedCatalog ==
    << Seed(1, 1999, 80, 120, <<28>>, <<"heist", "dream">>),
       Seed(2, 2010, 82, 130, <<28, 12>>, <<"dream">>),
       Seed(3, 2021, 76, 140, <<12>>, <<>>),
       Seed(4, 1950, 30, 90, <<18>>, <<"noir", "noir">>),
       Seed(5, 1960, 55, 100, <<18, 28>>, <<"constructor", "noir">>),
       Seed(6, 2035, 90, 150, <<878>>, <<"constructor">>),
       Seed(7, 1995, 70, 110, <<18>>, <<"heist">>),
       Seed(8, 1997, 64, 95, <<12, 12>>, <<>>),
       Seed(9, 2015, 58, 125, <<878, 28>>, <<"dream", "heist">>),
       Seed(10, 2017, 90, 180, <<>>, <<"Dream">>) >>

SeedIds == DOMAIN SeedCatalog

GenreChoices == {<<28>>, <<28, 12>>, <<18, 878>>}

----------------------------------------------------------------------------
(* buildPreferenceProfile *)

SetScore(scores, g, v) ==
    [x \in (DOMAIN scores) \cup {g} |-> IF x = g THEN v ELSE scores[x]]

RECURSIVE SelectedPass(_, _)
SelectedPass(scores, sel) ==
    IF sel = <<>> THEN scores
    ELSE SelectedPass(SetScore(scores, Head(sel), Num(10)), Tail(sel))

RECURSIVE SeedGenrePass(_, _)
SeedGenrePass(scores, gs) ==
    IF gs = <<>> THEN scores
    ELSE LET g == Head(gs)
             known == g \in DOMAIN scores /\ Truthy(scores[g])
             next == IF known THEN SetScore(scores, g, RAdd(scores[g], Num(3)))
                     ELSE SetScore(scores, g, Num(5))
         IN  SeedGenrePass(next, Tail(gs))

RECURSIVE AllGenreIds(_)
AllGenreIds(seeds) ==
    IF seeds = <<>> THEN <<>> ELSE Head(seeds).genre_ids \o AllGenreIds(Tail(seeds))

RECURSIVE AllKeywords(_)
AllKeywords(seeds) ==
    IF seeds = <<>> THEN <<>> ELSE Head(seeds).keywords \o AllKeywords(Tail(seeds))

\* Mutant: the score map is shared across calls instead of being created
\* afresh, so a later call starts from the previous call's scores.
genreScores_SharedAcrossCalls(seeds, sel) ==
    LET start == IF calls = <<>> THEN <<>>
                 ELSE calls[Len(calls)].profile.genreScores
    IN  SeedGenrePass(SelectedPass(start, sel), AllGenreIds(seeds))

\* Mutant: the seed movies' genres are visited before the explicit genres.
genreScores_SeedsFirst(seeds, sel) ==
    SelectedPass(SeedGenrePass(<<>>, AllGenreIds(seeds)), sel)

genreScores(seeds, sel) ==
    SeedGenrePass(SelectedPass(<<>>, sel), AllGenreIds(seeds))

\* counts[keyword] after a counting loop "counts[k] = (counts[k] || 0) + 1"
\* over the list: the number of occurrences.  An inherited key reads as a
\* function object, the sum becomes a string, and the count is not a number.
OccurrenceCount(list, kw) ==
    IF kw \in InheritedKeys THEN NaN
    ELSE Num(Cardinality({i \in DOMAIN list : list[i] = kw}))

keywordCounts(seeds, kw) == OccurrenceCount(AllKeywords(seeds), kw)

\* Object.entries(keywordCounts): string keys in insertion order.
RECURSIVE FirstSeen(_, _)
FirstSeen(s, seen) ==
    IF s = <<>> THEN <<>>
    ELSE IF Head(s) \in seen THEN FirstSeen(Tail(s), seen)
         ELSE <<Head(s)>> \o FirstSeen(Tail(s), seen \cup {Head(s)})

commonKeywords(seeds) ==
    SelectSeq(FirstSeen(AllKeywords(seeds), {}),
              LAMBDA kw : RLe(Num(2), keywordCounts(seeds, kw)))

RECURSIVE SumRuntime(_)
SumRuntime(seeds) ==
    IF seeds = <<>> THEN 0 ELSE Head(seeds).runtime + SumRuntime(Tail(seeds))

preferredRuntime(seeds) == MathRoundDiv(SumRuntime(seeds), Len(seeds))

FloorYear == 1980

\* Mutant: the range is extended 5 years forward, as it is backward.
yearRange_ForwardFive(seeds, year) ==
    LET years == {seeds[i].release_year : i \in DOMAIN seeds}
    IN  << IntMax(SetMin(years) - 5, FloorYear), IntMin(SetMax(years) + 5, year + 1) >>

yearRange(seeds, year) ==
    LET years == {seeds[i].release_year : i \in DOMAIN seeds}
        minYear == SetMin(years)
        maxYear == SetMax(years)
    IN  << IntMax(minYear - 5, FloorYear), IntMin(maxYear + 3, year + 1) >>

RECURSIVE SumRating(_)
SumRating(seeds) ==
    IF seeds = <<>> THEN Num(0)
    ELSE RAdd(Head(seeds).vote_average, SumRating(Tail(seeds)))

\* Mutant: the 6.0 floor is dropped.
minRating_NoFloor(seeds) ==
    RSub(RDivInt(SumRating(seeds), Len(seeds)), R(15, 10))

minRating(seeds) ==
    LET avgRating == RDivInt(SumRating(seeds), Len(seeds))
    IN  MathMax(RSub(avgRating, R(15, 10)), Num(6))

\* The clock is read inside the function (new Date().getFullYear()).
buildPreferenceProfile(seeds, sel) ==
    [genreScores |-> genreScores(seeds, sel),
     keywords |-> commonKeywords(seeds),
     preferredRuntime |-> preferredRuntime(seeds),
     preferredYearRange |-> yearRange(seeds, now),
     minRating |-> minRating(seeds)]

----------------------------------------------------------------------------
(* Profile builder: calls of buildPreferenceProfile under a running clock *)

GroupIdle == allUserPreferences = <<>> /\ groupRun = <<>>

FetchIdle ==
    /\ fetchArgs = <<>> /\ fetchPc = "unused" /\ requests = <<>> /\ fetchResult = <<>>

ScoreIdle == scoreArgs = <<>> /\ scoreLog = <<>>

RankIdle == rankArgs = <<>> /\ rankResult = <<>>

RoomIdle == room = <<>> /\ handlers = <<>> /\ budget = <<>>

RecIdle == recArgs = <<>> /\ recResult = <<>>

InitProfile ==
    /\ now \in ClockYears
    /\ RoomIdle
    /\ GroupIdle
    /\ FetchIdle
    /\ ScoreIdle
    /\ RankIdle
    /\ RecIdle
    /\ seedMovies \in {<<SeedCatalog[a], SeedCatalog[b], SeedCatalog[c]>> :
                          a \in SeedIds, b \in SeedIds, c \in SeedIds}
    /\ selectedGenres \in GenreChoices
    /\ calls = <<>>

CallBuild ==
    /\ Len(calls) < MaxCalls
    /\ calls' = Append(calls, [at |-> now,
                               profile |-> buildPreferenceProfile(seedMovies, selectedGenres)])
    /\ UNCHANGED <<now, roomVars, seedMovies, selectedGenres, groupVars, fetchVars, scoreVars, rankVars, recVars>>

\* The calendar year advances.
Tick ==
    /\ now + 1 \in ClockYears
    /\ now' = now + 1
    /\ UNCHANGED <<roomVars, profileVars, groupVars, fetchVars, scoreVars, rankVars, recVars>>

NextProfile == CallBuild \/ Tick

SpecProfile == InitProfile /\ [][NextProfile]_vars

----------------------------------------------------------------------------
(* generateGroupRecommendations: profile aggregation *)

\* prefs.profile || buildPreferenceProfile(prefs.seedMovies, prefs.selectedGenres);
\* the optional profile is a sequence of length 0 or 1.
profileOf(prefs) ==
    IF prefs.profile # <<>> THEN prefs.profile[1]
    ELSE buildPreferenceProfile(prefs.seedMovies, prefs.selectedGenres)

\* Sum of a list of numbers, left to right.
RECURSIVE SumSeq(_)
SumSeq(s) ==
    IF s = <<>> THEN Num(0) ELSE RAdd(SumSeq(SubSeq(s, 1, Len(s) - 1)), s[Len(s)])

RECURSIVE ProfileKeywords(_)
ProfileKeywords(profiles) ==
    IF profiles = <<>> THEN <<>>
    ELSE Head(profiles).keywords \o ProfileKeywords(Tail(profiles))

\* Mutant: each genre's sum is divided by the number of users who score it.
aggregatedGenreScores_OverMentioning(profiles) ==
    LET ids == UNION {DOMAIN profiles[i].genreScores : i \in DOMAIN profiles}
        scoreIn(p, g) == IF g \in DOMAIN p.genreScores THEN p.genreScores[g] ELSE Num(0)
    IN  [g \in ids |->
            RDivInt(SumSeq([i \in DOMAIN profiles |-> scoreIn(profiles[i], g)]),
                    Cardinality({i \in DOMAIN profiles : g \in DOMAIN profiles[i].genreScores}))]

aggregatedGenreScores(profiles) ==
    LET ids == UNION {DOMAIN profiles[i].genreScores : i \in DOMAIN profiles}
        scoreIn(p, g) == IF g \in DOMAIN p.genreScores THEN p.genreScores[g] ELSE Num(0)
    IN  [g \in ids |->
            RDivInt(SumSeq([i \in DOMAIN profiles |-> scoreIn(profiles[i], g)]),
                    Len(profiles))]

\* Mutant: the threshold is rounded down.
aggregatedKeywords_RoundedDown(profiles) ==
    LET all == ProfileKeywords(profiles)
        threshold == Len(profiles) \div 2
    IN  SelectSeq(FirstSeen(all, {}),
                  LAMBDA kw : RLe(Num(threshold), OccurrenceCount(all, kw)))

aggregatedKeywords(profiles) ==
    LET all == ProfileKeywords(profiles)
        threshold == (Len(profiles) + 1) \div 2
    IN  SelectSeq(FirstSeen(all, {}),
                  LAMBDA kw : RLe(Num(threshold), OccurrenceCount(all, kw)))

RECURSIVE SumPreferredRuntime(_)
SumPreferredRuntime(profiles) ==
    IF profiles = <<>> THEN 0
    ELSE Head(profiles).preferredRuntime + SumPreferredRuntime(Tail(profiles))

avgRuntime(profiles) == MathRoundDiv(SumPreferredRuntime(profiles), Len(profiles))

\* Mutant: the intersection of the users' ranges instead of their union.
groupYearRange_Intersection(profiles) ==
    << SetMax({profiles[i].preferredYearRange[1] : i \in DOMAIN profiles}),
       SetMin({profiles[i].preferredYearRange[2] : i \in DOMAIN profiles}) >>

groupYearRange(profiles) ==
    LET allMinYears == {profiles[i].preferredYearRange[1] : i \in DOMAIN profiles}
        allMaxYears == {profiles[i].preferredYearRange[2] : i \in DOMAIN profiles}
    IN  << SetMin(allMinYears), SetMax(allMaxYears) >>

avgMinRating(profiles) ==
    RDivInt(SumSeq([i \in DOMAIN profiles |-> profiles[i].minRating]), Len(profiles))

aggregatedProfile(profiles) ==
    [genreScores |-> aggregatedGenreScores(profiles),
     keywords |-> aggregatedKeywords(profiles),
     preferredRuntime |-> avgRuntime(profiles),
     preferredYearRange |-> groupYearRange(profiles),
     minRating |-> avgMinRating(profiles)]

----------------------------------------------------------------------------
(* Group aggregator: preferences are saved over time, then aggregated *)

\* Seed-movie ids and explicit genres a participant may submit.
PreferenceChoices ==
    { [seedMovieIds |-> <<1, 2, 3>>, selectedGenres |-> <<28>>],
      [seedMovieIds |-> <<4, 4, 5>>, selectedGenres |-> <<18, 878>>],
      [seedMovieIds |-> <<7, 7, 8>>, selectedGenres |-> <<28, 12>>],
      [seedMovieIds |-> <<9, 9, 10>>, selectedGenres |-> <<28>>],
      [seedMovieIds |-> <<1, 2>>, selectedGenres |-> <<28>>],
      [seedMovieIds |-> <<1, 2, 3>>, selectedGenres |-> <<>>] }

\* The preferences handler's checks on a request body.
WellFormed(c) == Len(c.selectedGenres) # 0 /\ Len(c.seedMovieIds) = 3

InitGroup ==
    /\ now \in ClockYears
    /\ RoomIdle
    /\ seedMovies = <<>> /\ selectedGenres = <<>> /\ calls = <<>>
    /\ allUserPreferences = <<>>
    /\ groupRun = <<>>
    /\ FetchIdle
    /\ ScoreIdle
    /\ RankIdle
    /\ RecIdle

\* A participant's UserPreferences joins the argument list.  The preferences
\* handler stores the profile built at save time from a well-formed body; the
\* type leaves the profile optional and the lists of any length.
SavePreferences ==
    /\ groupRun = <<>>
    /\ Len(allUserPreferences) < MaxUsers
    /\ \E c \in PreferenceChoices, stored \in BOOLEAN :
          LET seeds == [i \in DOMAIN c.seedMovieIds |-> SeedCatalog[c.seedMovieIds[i]]]
              prefs == [selectedGenres |-> c.selectedGenres,
                        seedMovies |-> seeds,
                        profile |-> IF stored
                                    THEN <<buildPreferenceProfile(seeds, c.selectedGenres)>>
                                    ELSE <<>>]
          IN  /\ stored => WellFormed(c)
              /\ allUserPreferences' = Append(allUserPreferences, prefs)
    /\ UNCHANGED <<now, roomVars, profileVars, groupRun, fetchVars, scoreVars, rankVars, recVars>>

\* generateGroupRecommendations up to its first await: the profiles are
\* collected (built on demand where absent) and aggregated.
Aggregate ==
    /\ groupRun = <<>>
    /\ allUserPreferences # <<>>
    /\ LET profiles == [i \in DOMAIN allUserPreferences |-> profileOf(allUserPreferences[i])]
       IN  groupRun' = << [profiles |-> profiles,
                           aggregatedProfile |-> aggregatedProfile(profiles)] >>
    /\ UNCHANGED <<now, roomVars, profileVars, allUserPreferences, fetchVars, scoreVars, rankVars, recVars>>

NextGroup == SavePreferences \/ Aggregate \/ Tick

SpecGroup == InitGroup /\ [][NextGroup]_vars

----------------------------------------------------------------------------
(* Array.prototype.sort *)

\* The arrangements of the elements of S, as sequences.
RECURSIVE Arrangements(_)
Arrangements(S) ==
    IF S = {} THEN {<<>>}
    ELSE UNION {{<<x>> \o p : p \in Arrangements(S \ {x})} : x \in S}

Perms(n) == Arrangements(1..n)

\* ECMAScript's consistent comparator; c[a, b] is the sign of the
\* comparator's result on the elements a and b, with NaN read as +0.
ConsistentComparator(s, c) ==
    \A x, y, z \in Range(s) :
        /\ c[x, x] = 0
        /\ c[x, y] = 0 => c[y, x] = 0
        /\ (c[x, y] = 0 /\ c[y, z] = 0) => c[x, z] = 0
        /\ (c[x, y] < 0 /\ c[y, z] < 0) => c[x, z] < 0
        /\ (c[x, y] > 0 /\ c[y, z] > 0) => c[x, z] > 0

\* The orders sort may produce: the stable sorted order under a consistent
\* comparator, and an implementation-defined order otherwise.
SortOutcomes(s, c) ==
    LET n == Len(s)
        sorted(p) == \A i, j \in 1..n :
                        i < j => \/ c[s[p[i]], s[p[j]]] < 0
                                 \/ c[s[p[i]], s[p[j]]] = 0 /\ p[i] < p[j]
    IN  { [i \in 1..n |-> s[p[i]]] :
            p \in IF ConsistentComparator(s, c)
                  THEN {q \in Perms(n) : sorted(q)}
                  ELSE Perms(n) }

Sign(x) == IF IsNaN(x) \/ x.n = 0 THEN 0 ELSE IF x.n < 0 THEN -1 ELSE 1

----------------------------------------------------------------------------
(* fetchCandidateMovies *)

\* Object.entries of an object with integer keys: ascending key order.
RECURSIVE Ascending(_)
Ascending(S) ==
    IF S = {} THEN <<>> ELSE <<SetMin(S)>> \o Ascending(S \ {SetMin(S)})

Take(s, k) == SubSeq(s, 1, IntMin(k, Len(s)))

\* Mutant: the genres are sorted by score ascending.
topGenres_LowestFirst(profile) ==
    LET entries == Ascending(DOMAIN profile.genreScores)
        byScore == [a \in Range(entries), b \in Range(entries) |->
                       Sign(RSub(profile.genreScores[a], profile.genreScores[b]))]
        sorted == CHOOSE r \in SortOutcomes(entries, byScore) : TRUE
    IN  Take(sorted, 5)

topGenres(profile) ==
    LET entries == Ascending(DOMAIN profile.genreScores)
        byScore == [a \in Range(entries), b \in Range(entries) |->
                       Sign(RSub(profile.genreScores[b], profile.genreScores[a]))]
        sorted == CHOOSE r \in SortOutcomes(entries, byScore) : TRUE
    IN  Take(sorted, 5)

moviesPerPage == 20

\* Math.min(Math.ceil(maxMovies / moviesPerPage), 10)
\* Mutant: the number of requests is not capped.
requestCount_Uncapped(maxMovies) ==
    (maxMovies + moviesPerPage - 1) \div moviesPerPage

requestCount(maxMovies) ==
    IntMin((maxMovies + moviesPerPage - 1) \div moviesPerPage, 10)

discoverParams(profile, i) ==
    [genreIds |-> topGenres(profile),
     minVoteCount |-> 300,
     minVoteAverage |-> profile.minRating,
     minYear |-> profile.preferredYearRange[1],
     maxYear |-> profile.preferredYearRange[2],
     page |-> i]

RECURSIVE Concat(_)
Concat(ss) == IF ss = <<>> THEN <<>> ELSE Head(ss) \o Concat(Tail(ss))

\* Mutant: the duplicates are not removed.
uniqueCandidates_NoDedup(candidates) == candidates

\* Mutant: an id keeps the record that came first.
uniqueCandidates_FirstRecord(candidates) ==
    LET ids == FirstSeen([i \in DOMAIN candidates |-> candidates[i].id], {})
        first(id) == SetMin({i \in DOMAIN candidates : candidates[i].id = id})
    IN  [k \in DOMAIN ids |-> candidates[first(ids[k])]]

\* Array.from(new Map(candidates.map(m => [m.id, m])).values()): a key keeps
\* the position of its first insertion and the value of its last.
uniqueCandidates(candidates) ==
    LET ids == FirstSeen([i \in DOMAIN candidates |-> candidates[i].id], {})
        last(id) == SetMax({i \in DOMAIN candidates : candidates[i].id = id})
    IN  [k \in DOMAIN ids |-> candidates[last(ids[k])]]

\* What fetchCandidateMovies returns once every page promise is fulfilled.
candidatePool(reqs, maxMovies) ==
    Take(uniqueCandidates(Concat([i \in DOMAIN reqs |-> reqs[i].movies])), maxMovies)

----------------------------------------------------------------------------
(* Candidate retriever: one call of fetchCandidateMovies and its requests *)

SeedsOf(c) == [i \in 1..3 |-> SeedCatalog[c.seedMovieIds[i]]]

\* Profiles the retriever is called with: individual ones and a group one.
ProfileChoices ==
    LET own(ids, sel) == buildPreferenceProfile(SeedsOf([seedMovieIds |-> ids]), sel)
    IN  { own(<<1, 2, 3>>, <<28>>),
          own(<<1, 2, 3>>, <<28, 12, 18, 878, 35, 16>>),
          aggregatedProfile(<< own(<<1, 2, 3>>, <<28>>), own(<<4, 4, 5>>, <<18, 878>>) >>) }

\* Responses of the catalogue: each record is tagged with the page and the
\* position it came from, so records of the same id from different places differ.
\* A call of more than MaxVariedPages requests finds every page empty.
PageContents(i) ==
    LET idSeqs == IF Len(requests) > MaxVariedPages THEN {<<>>}
                  ELSE UNION {[1..n -> PageIds] : n \in 0..MaxPageLen}
    IN  { [k \in DOMAIN ids |-> [id |-> ids[k], page |-> i, pos |-> k]] : ids \in idSeqs }

\* The callers' own target sizes: generateRecommendations leaves maxMovies at
\* its default, generateGroupRecommendations passes 300.
CallerTargets ==
    LET own(ids, sel) == buildPreferenceProfile(SeedsOf([seedMovieIds |-> ids]), sel)
    IN  { [profile |-> own(<<1, 2, 3>>, <<28>>), maxMovies |-> 200],
          [profile |-> aggregatedProfile(<< own(<<1, 2, 3>>, <<28>>),
                                            own(<<4, 4, 5>>, <<18, 878>>) >>),
           maxMovies |-> 300] }

InitFetch ==
    /\ now \in ClockYears
    /\ RoomIdle
    /\ seedMovies = <<>> /\ selectedGenres = <<>> /\ calls = <<>>
    /\ GroupIdle
    /\ \/ fetchArgs \in [profile : ProfileChoices, maxMovies : TargetSizes]
       \/ now = SetMax(ClockYears) /\ fetchArgs \in CallerTargets
    /\ fetchPc = "idle"
    /\ requests = <<>>
    /\ fetchResult = <<>>
    /\ ScoreIdle
    /\ RankIdle
    /\ RecIdle

\* fetchCandidateMovies up to "await Promise.all(promises)": every
\* discoverMovies call is issued.
FetchStart ==
    /\ fetchPc = "idle"
    /\ requests' = [i \in 1..requestCount(fetchArgs.maxMovies) |->
                       [status |-> "pending",
                        params |-> discoverParams(fetchArgs.profile, i),
                        movies |-> <<>>]]
    /\ fetchPc' = "awaiting"
    /\ UNCHANGED <<now, roomVars, profileVars, groupVars, scoreVars, rankVars, recVars, fetchArgs, fetchResult>>

\* A discoverMovies promise is fulfilled; when it is the last one, Promise.all
\* is fulfilled and fetchCandidateMovies runs to its return.
PageFulfils ==
    \E i \in DOMAIN requests : \E movies \in PageContents(i) :
        /\ requests[i].status = "pending"
        /\ requests' = [requests EXCEPT ![i].status = "fulfilled", ![i].movies = movies]
        /\ IF fetchPc = "awaiting"
              /\ \A j \in DOMAIN requests : requests'[j].status = "fulfilled"
           THEN /\ fetchPc' = "returned"
                /\ fetchResult' = candidatePool(requests', fetchArgs.maxMovies)
           ELSE UNCHANGED <<fetchPc, fetchResult>>
        /\ UNCHANGED <<now, roomVars, profileVars, groupVars, scoreVars, rankVars, recVars, fetchArgs>>

\* A discoverMovies promise is rejected (missing API key, or the request
\* failed and the catch block rethrew); Promise.all rejects with the first
\* rejection and the await throws.
PageRejects ==
    \E i \in DOMAIN requests :
        /\ requests[i].status = "pending"
        /\ requests' = [requests EXCEPT ![i].status = "rejected"]
        /\ fetchPc' = IF fetchPc = "awaiting" THEN "threw" ELSE fetchPc
        /\ UNCHANGED <<now, roomVars, profileVars, groupVars, scoreVars, rankVars, recVars, fetchArgs, fetchResult>>

NextFetch == FetchStart \/ PageFulfils \/ PageRejects

SpecFetch == InitFetch /\ [][NextFetch]_vars

----------------------------------------------------------------------------
(* scoreMovie *)

\* release_date of a movie without one (absent or the empty string).
NoDate == 0

\* new Date(release_date).getFullYear(): NaN for an invalid date.
getFullYear(release_date) ==
    IF release_date = NoDate THEN NaN ELSE Num(release_date)

\* Sum of profile.genreScores[genreId] || 0 over the movie's genre ids.
RECURSIVE genreScoreSum(_, _)
genreScoreSum(genre_ids, profile) ==
    IF genre_ids = <<>> THEN Num(0)
    ELSE LET g == genre_ids[Len(genre_ids)]
             w == IF g \in DOMAIN profile.genreScores /\ Truthy(profile.genreScores[g])
                  THEN profile.genreScores[g] ELSE Num(0)
         IN  RAdd(genreScoreSum(SubSeq(genre_ids, 1, Len(genre_ids) - 1), profile), w)

\* Mutant: a genre the profile does not score costs a point.
genreMatch_PenalizeUnmatched(movie, profile) ==
    LET unmatched == Cardinality({i \in DOMAIN movie.genre_ids :
                                     movie.genre_ids[i] \notin DOMAIN profile.genreScores})
    IN  MathMin(RSub(genreScoreSum(movie.genre_ids, profile), Num(unmatched)), Num(30))

\* 1. Genre match: an absent genre_ids and an empty one both contribute 0.
genreMatch(movie, profile) ==
    MathMin(genreScoreSum(movie.genre_ids, profile), Num(30))

\* 2. Runtime similarity: skipped when movie.runtime is falsy (absent or 0).
runtimeScore(movie, profile) ==
    IF movie.runtime = 0 THEN Num(0)
    ELSE LET runtimeDiff == Abs(movie.runtime - profile.preferredRuntime)
         IN  MathMax(RSub(Num(10), R(runtimeDiff, 10)), Num(0))

\* 3. Release year proximity.
yearScore(movie, profile) ==
    LET movieYear == getFullYear(movie.release_date)
        midYear == R(profile.preferredYearRange[1] + profile.preferredYearRange[2], 2)
        yearDiff == MathAbs(RSub(movieYear, midYear))
    IN  MathMax(RSub(Num(10), RDivInt(yearDiff, 5)), Num(0))

\* 4. Rating bonus.
ratingBonus(movie, profile) ==
    MathMin(MathMax(RMulInt(RSub(movie.vote_average, profile.minRating), 2), Num(0)),
            Num(10))

\* Mutant: the popularity bonus is not capped.
popularityScore_Uncapped(movie) ==
    IF movie.popularity = 0 THEN Num(0) ELSE R(movie.popularity, 100)

\* 5. Popularity bonus: skipped when movie.popularity is falsy (absent or 0).
popularityScore(movie) ==
    IF movie.popularity = 0 THEN Num(0)
    ELSE MathMin(R(movie.popularity, 100), Num(5))

scoreMovie(movie, profile) ==
    RAdd(RAdd(RAdd(RAdd(genreMatch(movie, profile),
                        runtimeScore(movie, profile)),
                   yearScore(movie, profile)),
              ratingBonus(movie, profile)),
         popularityScore(movie))

----------------------------------------------------------------------------
(* Scorer: calls of scoreMovie on a movie and on the movie with more genres *)

\* Candidate movies: genre ids, runtime (0: unknown), release year (NoDate:
\* none), rating in tenths, popularity (0: unknown).
MovieChoices ==
    [genre_ids : {<<>>, <<28>>, <<12, 28>>},
     runtime : {0, 95},
     release_date : {NoDate, 2008},
     vote_average : {R(50, 10), R(83, 10)},
     popularity : {0, 250, 800}]

\* Genre ids a movie may carry: scored by the profiles, or by none (99).
MovieGenreIds == {12, 28, 99}

InitScore ==
    /\ now \in ClockYears
    /\ RoomIdle
    /\ seedMovies = <<>> /\ selectedGenres = <<>> /\ calls = <<>>
    /\ GroupIdle
    /\ FetchIdle
    /\ scoreArgs \in [movie : MovieChoices, profile : ProfileChoices]
    /\ scoreLog = <<>>
    /\ RankIdle
    /\ RecIdle

CallScoreMovie ==
    /\ Len(scoreLog) < MaxScoreCalls
    /\ \A i \in DOMAIN scoreLog : scoreLog[i].movie # scoreArgs.movie
    /\ scoreLog' = Append(scoreLog,
                          [movie |-> scoreArgs.movie,
                           score |-> scoreMovie(scoreArgs.movie, scoreArgs.profile)])
    /\ UNCHANGED <<now, roomVars, profileVars, groupVars, fetchVars, rankVars, recVars, scoreArgs>>

\* The next movie scored is the same movie with one more genre id.
AddGenre ==
    /\ Len(scoreArgs.movie.genre_ids) < MaxGenres
    /\ \E g \in MovieGenreIds :
          scoreArgs' = [scoreArgs EXCEPT !.movie.genre_ids = Append(@, g)]
    /\ UNCHANGED <<now, roomVars, profileVars, groupVars, fetchVars, rankVars, recVars, scoreLog>>

NextScore == CallScoreMovie \/ AddGenre

SpecScore == InitScore /\ [][NextScore]_vars

----------------------------------------------------------------------------
(* rankMovies *)

\* a !== b on numbers: NaN differs from everything, itself included.
StrictNotEqual(x, y) == IsNaN(x) \/ IsNaN(y) \/ x # y

\* a.genre_ids?.filter((id) => selectedGenres.includes(id)).length || 0
genreMatchCount(movie, sel) ==
    Cardinality({i \in DOMAIN movie.genre_ids : movie.genre_ids[i] \in Range(sel)})

\* Sign of the comparator's result, NaN read as +0.
rankCompare(a, b, sel) ==
    LET aYear == getFullYear(a.release_date)
        bYear == getFullYear(b.release_date)
    IN  IF a.vote_average # b.vote_average
        THEN Sign(RSub(b.vote_average, a.vote_average))
        ELSE IF StrictNotEqual(aYear, bYear)
             THEN Sign(RSub(bYear, aYear))
             ELSE Sign(Num(genreMatchCount(b, sel) - genreMatchCount(a, sel)))

\* The arrays [...movies].sort(comparator) may return.
rankMovies(movies, sel) ==
    SortOutcomes(movies, [a \in Range(movies), b \in Range(movies) |->
                             rankCompare(a, b, sel)])

----------------------------------------------------------------------------
(* Ranking utility: one call of rankMovies on a fetched pool *)

RankMovieChoices ==
    [vote_average : {R(70, 10), R(75, 10)},
     release_date : {NoDate, 2015, 2020},
     genre_ids : {<<28>>, <<28, 12>>}]

InitRank ==
    /\ now = SetMin(ClockYears)
    /\ RoomIdle
    /\ seedMovies = <<>> /\ selectedGenres = <<>> /\ calls = <<>>
    /\ GroupIdle
    /\ FetchIdle
    /\ ScoreIdle
    /\ rankArgs \in [movies : UNION {[1..n -> RankMovieChoices] : n \in 0..MaxRankLen},
                     selectedGenres : {<<28, 12>>}]
    /\ rankResult = <<>>
    /\ RecIdle

CallRankMovies ==
    /\ rankResult = <<>>
    /\ \E ranked \in rankMovies(rankArgs.movies, rankArgs.selectedGenres) :
          rankResult' = <<ranked>>
    /\ UNCHANGED <<now, roomVars, profileVars, groupVars, fetchVars, scoreVars, rankArgs, recVars>>

NextRank == CallRankMovies

SpecRank == InitRank /\ [][NextRank]_vars

----------------------------------------------------------------------------
(* generateGroupRecommendations: score and sort the candidate pool *)

\* candidates.map((movie) => ({ movie, score: scoreMovie(movie, profile) }))
scoredMovies(candidates, profile) ==
    [i \in DOMAIN candidates |->
        [movie |-> candidates[i], score |-> scoreMovie(candidates[i], profile)]]

\* (a, b) => b.score - a.score, by sign.
byScoreDescending(scored) ==
    [a \in Range(scored), b \in Range(scored) |-> Sign(RSub(b.score, a.score))]

\* scores[item.movie.id] = item.score over the sorted list.
scoreMap(sorted) ==
    [id \in {sorted[i].movie.id : i \in DOMAIN sorted} |->
        sorted[SetMax({i \in DOMAIN sorted : sorted[i].movie.id = id})].score]

\* The sequences generateRecommendations may return when the retrieval
\* returns the given candidates.
generateRecommendations(userPreferences, candidates) ==
    LET scored == scoredMovies(candidates, profileOf(userPreferences))
    IN  { [i \in DOMAIN sorted |-> sorted[i].movie] :
            sorted \in SortOutcomes(scored, byScoreDescending(scored)) }

\* Mutant: only the best-scored candidate is returned.
generateGroupRecommendations_TopOnly(prefsList, candidates) ==
    LET profiles == [i \in DOMAIN prefsList |-> profileOf(prefsList[i])]
        scored == scoredMovies(candidates, aggregatedProfile(profiles))
    IN  { [movies |-> Take([i \in DOMAIN sorted |-> sorted[i].movie], 1),
           scores |-> scoreMap(sorted)] :
            sorted \in SortOutcomes(scored, byScoreDescending(scored)) }

\* The values generateGroupRecommendations may return when the retrieval
\* returns the given candidates.
generateGroupRecommendations(prefsList, candidates) ==
    LET profiles == [i \in DOMAIN prefsList |-> profileOf(prefsList[i])]
        scored == scoredMovies(candidates, aggregatedProfile(profiles))
    IN  { [movies |-> [i \in DOMAIN sorted |-> sorted[i].movie],
           scores |-> scoreMap(sorted)] :
            sorted \in SortOutcomes(scored, byScoreDescending(scored)) }

----------------------------------------------------------------------------
(* The room document and the pure helpers of its handlers *)

VoteTypes == {"liked", "maybe", "discarded"}

\* create.ts: the room document as created.  The optional fields
\* userPreferences and recommendationScores are absent, read as {}.
newRoom ==
    [participants |-> <<>>, movieList |-> <<>>, votes |-> <<>>, watchlist |-> <<>>,
     userPreferences |-> <<>>, recommendationScores |-> <<>>,
     preferences |-> [genres |-> <<>>]]

\* Mutant: the document is replaced, so the fields not named are as created.
updateDoc_Replace(current, fields) ==
    [f \in DOMAIN current |-> IF f \in DOMAIN fields THEN fields[f] ELSE newRoom[f]]

\* updateDoc(roomRef, fields): the named top-level fields are replaced in the
\* stored document, the others are kept.
updateDoc(current, fields) ==
    [f \in DOMAIN current |-> IF f \in DOMAIN fields THEN fields[f] ELSE current[f]]

\* Movie ids with a 'liked' or 'maybe' vote of any voter.
watchlistMovieIds(votes) ==
    {m \in UNION {DOMAIN votes[p] : p \in DOMAIN votes} :
        \E p \in DOMAIN votes :
            m \in DOMAIN votes[p] /\ votes[p][m] \in {"liked", "maybe"}}

\* movieList.filter((movie) => ids.has(movie.id))
RECURSIVE filterById(_, _)
filterById(movieList, ids) ==
    IF movieList = <<>> THEN <<>>
    ELSE (IF Head(movieList).id \in ids THEN <<Head(movieList)>> ELSE <<>>)
             \o filterById(Tail(movieList), ids)

compileWatchlist(r) ==
    uniqueCandidates(filterById(r.movieList, watchlistMovieIds(r.votes)))

\* room.votes[participantId][movieId] = voteType, on the handler's copy.
withVote(votes, participantId, movieId, voteType) ==
    LET own == IF participantId \in DOMAIN votes THEN votes[participantId] ELSE <<>>
        mine == [m \in DOMAIN own \cup {movieId} |->
                    IF m = movieId THEN voteType ELSE own[m]]
    IN  [p \in DOMAIN votes \cup {participantId} |->
            IF p = participantId THEN mine ELSE votes[p]]

\* delete votes[participantId]
withoutVoter(votes, participantId) ==
    [p \in DOMAIN votes \ {participantId} |-> votes[p]]

\* participants.filter((p) => p.id !== participantId)
RECURSIVE withoutParticipant(_, _)
withoutParticipant(participants, participantId) ==
    IF participants = <<>> THEN <<>>
    ELSE (IF Head(participants).id # participantId THEN <<Head(participants)>> ELSE <<>>)
             \o withoutParticipant(Tail(participants), participantId)

\* participants.map((p) => p.id === participantId
\*     ? { ...p, hasCompletedPreferences: true, genres } : p)
markCompleted(participants, participantId) ==
    [i \in DOMAIN participants |->
        IF participants[i].id = participantId
        THEN [participants[i] EXCEPT !.hasCompletedPreferences = TRUE]
        ELSE participants[i]]

\* Object.values(room.userPreferences || {}), by ascending participant id.
userPreferencesValues(r) ==
    LET ids == Ascending(DOMAIN r.userPreferences)
    IN  [i \in DOMAIN ids |-> r.userPreferences[ids[i]]]

\* Array.from(new Set(allUserPreferences.flatMap((p) => p.selectedGenres)))
combinedGenres(prefsList) ==
    FirstSeen(Concat([i \in DOMAIN prefsList |-> prefsList[i].selectedGenres]), {})

----------------------------------------------------------------------------
(* The room API: each handler reads the room (getDoc), then writes it        *)
(* (updateDoc, a merge of the top-level fields it names).  Handlers of       *)
(* different requests interleave between the read and the write.  One room   *)
(* exists; requests with a missing id field are answered 400 before the room *)
(* is read and are not enumerated; the store itself does not fail.           *)

NoArgs ==
    [participantId |-> 0, nickname |-> "", movieId |-> 0, voteType |-> "",
     selectedGenres |-> <<>>, seedMovieIds |-> <<>>]

\* A request that has read the room and awaits its next step.
Pending(kind, args, snap) ==
    [kind |-> kind, args |-> args, pc |-> "pending", snap |-> <<snap>>,
     status |-> 0, out |-> <<>>, writes |-> 0, fetches |-> 0, work |-> <<>>]

\* A request answered without a write.
Answered(kind, args, status, out) ==
    [kind |-> kind, args |-> args, pc |-> "done", snap |-> <<>>,
     status |-> status, out |-> out, writes |-> 0, fetches |-> 0, work |-> <<>>]

\* One more request of the kind is made.
Spend(kind) ==
    /\ budget[kind] > 0
    /\ budget.total > 0
    /\ budget' = [budget EXCEPT ![kind] = @ - 1, !.total = @ - 1]

Started(kind) == Cardinality({i \in DOMAIN handlers : handlers[i].kind = kind})

InFlight == {i \in DOMAIN handlers : handlers[i].pc = "pending"}

\* Participant ids are generated by the client, fresh for each join page.
IssuedIds == 1..Started("join")

\* The participants whose clients vote, save preferences and leave.
ActiveIds == {1, 2}

Nicknames == <<"ann", "bob", "cy", "dee", "eve", "fay", "gus", "hal">>

\* nickname.toLowerCase().trim()
Normalize(nickname) == IF nickname = " Ann" THEN "ann" ELSE nickname

\* Bodies of a join request: a new client under a new nickname; for the
\* second client also under " Ann", and instead of it the first client again
\* under another nickname.
JoinChoices ==
    LET fresh == Started("join") + 1
    IN  IF fresh # 2 THEN { [id |-> fresh, nickname |-> Nicknames[fresh]] }
        ELSE { [id |-> fresh, nickname |-> Nicknames[fresh]],
               [id |-> fresh, nickname |-> " Ann"],
               [id |-> 1, nickname |-> "zed"] }

JoinStart ==
    /\ Spend("join")
    /\ Cardinality(InFlight) < MaxInFlight
    /\ \E participant \in JoinChoices :
          LET args == [NoArgs EXCEPT !.participantId = participant.id,
                                     !.nickname = participant.nickname]
              nicknameInUse ==
                  \E k \in DOMAIN room.participants :
                      Normalize(room.participants[k].nickname) = Normalize(participant.nickname)
              existingParticipant ==
                  \E k \in DOMAIN room.participants : room.participants[k].id = participant.id
          IN  handlers' = Append(handlers,
                  IF nicknameInUse THEN Answered("join", args, 400, <<>>)
                  ELSE IF existingParticipant THEN Answered("join", args, 200, <<>>)
                  ELSE Pending("join", args, room))
    /\ UNCHANGED <<now, room, profileVars, groupVars, fetchVars, scoreVars, rankVars, recVars>>

\* updateDoc(roomRef, { participants: arrayUnion(newParticipant) }): applied
\* by the store to the array as it is then.  newParticipant carries its own
\* joinedAt timestamp, so it equals no element already there.
JoinWrite ==
    \E i \in InFlight :
        /\ handlers[i].kind = "join"
        /\ room' = updateDoc(room,
                       [participants |->
                           Append(room.participants,
                                  [id |-> handlers[i].args.participantId,
                                   nickname |-> handlers[i].args.nickname,
                                   hasCompletedPreferences |-> FALSE])])
        /\ handlers' = [handlers EXCEPT ![i].pc = "done", ![i].snap = <<>>,
                                        ![i].status = 200, ![i].writes = @ + 1]
        /\ UNCHANGED <<now, budget, profileVars, groupVars, fetchVars, scoreVars, rankVars, recVars>>

\* Bodies of a vote request.
VoteChoices ==
    { [movieId |-> 101, voteType |-> "liked"],
      [movieId |-> 102, voteType |-> "maybe"],
      [movieId |-> 101, voteType |-> "discarded"] }

VoteStart ==
    /\ Spend("vote")
    /\ Cardinality(InFlight) < MaxInFlight
    /\ \E participantId \in ActiveIds \cap IssuedIds, v \in VoteChoices :
          handlers' = Append(handlers,
              Pending("vote", [NoArgs EXCEPT !.participantId = participantId,
                                             !.movieId = v.movieId,
                                             !.voteType = v.voteType], room))
    /\ UNCHANGED <<now, room, profileVars, groupVars, fetchVars, scoreVars, rankVars, recVars>>

\* The vote is set on the room as read, the watchlist is compiled from it,
\* and updateDoc writes votes and watchlist.
VoteWrite ==
    \E i \in InFlight :
        /\ handlers[i].kind = "vote"
        /\ LET a == handlers[i].args
               snap == handlers[i].snap[1]
               votes == withVote(snap.votes, a.participantId, a.movieId, a.voteType)
               watchlist == compileWatchlist([snap EXCEPT !.votes = votes])
           IN  room' = updateDoc(room, [votes |-> votes, watchlist |-> watchlist])
        /\ handlers' = [handlers EXCEPT ![i].pc = "done", ![i].snap = <<>>,
                                        ![i].status = 200, ![i].writes = @ + 1]
        /\ UNCHANGED <<now, budget, profileVars, groupVars, fetchVars, scoreVars, rankVars, recVars>>

LeaveStart ==
    /\ Spend("leave")
    /\ Cardinality(InFlight) < MaxInFlight
    /\ \E participantId \in ActiveIds \cap IssuedIds :
          handlers' = Append(handlers,
              Pending("leave", [NoArgs EXCEPT !.participantId = participantId], room))
    /\ UNCHANGED <<now, room, profileVars, groupVars, fetchVars, scoreVars, rankVars, recVars>>

\* The participant and its votes are removed from the room as read, the
\* watchlist is compiled from the rest, and updateDoc writes participants,
\* votes and watchlist.
LeaveWrite ==
    \E i \in InFlight :
        /\ handlers[i].kind = "leave"
        /\ LET snap == handlers[i].snap[1]
               updatedParticipants ==
                   withoutParticipant(snap.participants, handlers[i].args.participantId)
               votes == withoutVoter(snap.votes, handlers[i].args.participantId)
               updatedWatchlist ==
                   compileWatchlist([snap EXCEPT !.participants = updatedParticipants,
                                                 !.votes = votes])
           IN  room' = updateDoc(room, [participants |-> updatedParticipants,
                                        votes |-> votes,
                                        watchlist |-> updatedWatchlist])
        /\ handlers' = [handlers EXCEPT ![i].pc = "done", ![i].snap = <<>>,
                                        ![i].status = 200, ![i].writes = @ + 1]
        /\ UNCHANGED <<now, budget, profileVars, groupVars, fetchVars, scoreVars, rankVars, recVars>>

\* Bodies of a preferences request: a well-formed one, one with two seed
\* movies, one without genres.
SaveChoices ==
    { [seedMovieIds |-> <<1, 2, 3>>, selectedGenres |-> <<28, 12>>],
      [seedMovieIds |-> <<1, 2>>, selectedGenres |-> <<28>>],
      [seedMovieIds |-> <<1, 2, 3>>, selectedGenres |-> <<>>] }

\* Mutant: a failed lookup yields the first catalogue entry instead.
fetchSeedMovies_Substitute(movieIds, failed) ==
    [k \in DOMAIN movieIds |->
        IF k \in failed THEN SeedCatalog[1] ELSE SeedCatalog[movieIds[k]]]

\* fetchSeedMovies: the details of each id are looked up in turn; a failed
\* lookup is logged and skipped.
fetchSeedMovies(movieIds, failed) ==
    LET kept == Ascending(DOMAIN movieIds \ failed)
    IN  [k \in DOMAIN kept |-> SeedCatalog[movieIds[kept[k]]]]

SaveStart ==
    /\ Spend("preferences")
    /\ Cardinality(InFlight) < MaxInFlight
    /\ \E participantId \in ActiveIds \cap IssuedIds, c \in SaveChoices :
          LET args == [NoArgs EXCEPT !.participantId = participantId,
                                     !.selectedGenres = c.selectedGenres,
                                     !.seedMovieIds = c.seedMovieIds]
              participant ==
                  \E k \in DOMAIN room.participants : room.participants[k].id = participantId
          IN  handlers' = Append(handlers,
                  IF Len(c.selectedGenres) = 0 THEN Answered("preferences", args, 400, <<>>)
                  ELSE IF Len(c.seedMovieIds) # 3 THEN Answered("preferences", args, 400, <<>>)
                  ELSE IF ~participant THEN Answered("preferences", args, 403, <<>>)
                  ELSE Pending("preferences", args, room))
    /\ UNCHANGED <<now, room, profileVars, groupVars, fetchVars, scoreVars, rankVars, recVars>>

\* The seed movies are fetched; with all three the profile is built and
\* updateDoc writes userPreferences and participants, both derived from the
\* room as read.
SaveFinish ==
    \E i \in InFlight : \E failed \in SUBSET (1..3) :
        /\ handlers[i].kind = "preferences"
        /\ LET a == handlers[i].args
               snap == handlers[i].snap[1]
               seeds == fetchSeedMovies(a.seedMovieIds, failed)
               profile == buildPreferenceProfile(seeds, a.selectedGenres)
               userPreferences == [participantId |-> a.participantId,
                                   selectedGenres |-> a.selectedGenres,
                                   seedMovies |-> seeds,
                                   profile |-> <<profile>>]
               updatedUserPreferences ==
                   [q \in DOMAIN snap.userPreferences \cup {a.participantId} |->
                       IF q = a.participantId THEN userPreferences
                       ELSE snap.userPreferences[q]]
               updatedParticipants == markCompleted(snap.participants, a.participantId)
           IN  IF Len(seeds) # 3
               THEN /\ handlers' = [handlers EXCEPT
                           ![i].pc = "done", ![i].snap = <<>>, ![i].status = 400,
                           ![i].work = <<[lookupFailed |-> failed # {}, profile |-> <<>>]>>]
                    /\ UNCHANGED room
               ELSE /\ room' = updateDoc(room, [userPreferences |-> updatedUserPreferences,
                                                participants |-> updatedParticipants])
                    /\ handlers' = [handlers EXCEPT
                           ![i].pc = "done", ![i].snap = <<>>, ![i].status = 200,
                           ![i].writes = @ + 1,
                           ![i].work = <<[lookupFailed |-> failed # {}, profile |-> <<profile>>]>>]
        /\ UNCHANGED <<now, budget, profileVars, groupVars, fetchVars, scoreVars, rankVars, recVars>>

\* Movies the catalogue returns to a retrieval (discover results carry no
\* runtime), and the deduplicated pools a retrieval may return.
RoomMovie(id, genres, release_date, rating10, popularity) ==
    [id |-> id, genre_ids |-> genres, runtime |-> 0, release_date |-> release_date,
     vote_average |-> R(rating10, 10), popularity |-> popularity]

PoolChoices ==
    { << RoomMovie(101, <<28>>, 2008, 83, 250), RoomMovie(102, <<12, 28>>, 2015, 70, 800) >>,
      << RoomMovie(102, <<12, 28>>, 2015, 70, 800), RoomMovie(103, <<18>>, NoDate, 65, 0) >> }

\* Mutant: one ready participant is enough.
allCompleted_SomeReady(participants) ==
    participants = <<>> \/ \E k \in DOMAIN participants : participants[k].hasCompletedPreferences

\* room.participants.every((p) => p.hasCompletedPreferences)
allCompleted(participants) ==
    \A k \in DOMAIN participants : participants[k].hasCompletedPreferences

\* room.participants.filter((p) => p.hasCompletedPreferences).length
participantsReady(participants) ==
    Cardinality({k \in DOMAIN participants : participants[k].hasCompletedPreferences})

GenerateStart ==
    /\ Spend("generate")
    /\ Cardinality(InFlight) < MaxInFlight
    /\ LET counts == [participantsReady |-> participantsReady(room.participants),
                      totalParticipants |-> Len(room.participants)]
       IN  handlers' = Append(handlers,
               IF ~allCompleted(room.participants)
               THEN [Answered("generate", NoArgs, 400, <<counts>>) EXCEPT !.snap = <<room>>]
               ELSE IF Len(userPreferencesValues(room)) = 0
                    THEN [Answered("generate", NoArgs, 400, <<>>) EXCEPT !.snap = <<room>>]
               ELSE Pending("generate", NoArgs, room))
    /\ UNCHANGED <<now, room, profileVars, groupVars, fetchVars, scoreVars, rankVars, recVars>>

\* generateGroupRecommendations throws (the retrieval failed) and the handler
\* answers 500, or it returns and updateDoc writes movieList,
\* recommendationScores and preferences.  A generate request's record keeps
\* the room it read.
GenerateFinish ==
    \E i \in InFlight :
        /\ handlers[i].kind = "generate"
        /\ LET allUserPreferences_ == userPreferencesValues(handlers[i].snap[1])
           IN  \/ /\ handlers' = [handlers EXCEPT
                         ![i].pc = "done", ![i].status = 500,
                         ![i].fetches = @ + 1]
                  /\ UNCHANGED room
               \/ \E candidates \in PoolChoices :
                    \E result \in generateGroupRecommendations(allUserPreferences_, candidates) :
                      /\ room' = updateDoc(room,
                             [movieList |-> result.movies,
                              recommendationScores |-> result.scores,
                              preferences |-> [genres |-> combinedGenres(allUserPreferences_)]])
                      /\ handlers' = [handlers EXCEPT
                             ![i].pc = "done", ![i].status = 200,
                             ![i].writes = @ + 1, ![i].fetches = @ + 1,
                             ![i].work = <<[prefs |-> allUserPreferences_,
                                            candidates |-> candidates, result |-> result]>>]
        /\ UNCHANGED <<now, budget, profileVars, groupVars, fetchVars, scoreVars, rankVars, recVars>>

InitRoom ==
    /\ now = SetMax(ClockYears)
    /\ seedMovies = <<>> /\ selectedGenres = <<>> /\ calls = <<>>
    /\ GroupIdle
    /\ FetchIdle
    /\ ScoreIdle
    /\ RankIdle
    /\ RecIdle
    /\ room = newRoom
    /\ handlers = <<>>
    /\ budget = [join |-> MaxJoins, leave |-> MaxLeaves, vote |-> MaxVotes,
                 preferences |-> MaxSaves, generate |-> MaxGenerates,
                 total |-> MaxRequests]

NextRoom ==
    \/ JoinStart \/ JoinWrite
    \/ VoteStart \/ VoteWrite
    \/ LeaveStart \/ LeaveWrite
    \/ SaveStart \/ SaveFinish
    \/ GenerateStart \/ GenerateFinish

SpecRoom == InitRoom /\ [][NextRoom]_vars

----------------------------------------------------------------------------
(* A room that fills up: join requests, with a leave and a preferences       *)
(* request among them.                                                       *)

InitCrowd ==
    /\ now = SetMax(ClockYears)
    /\ seedMovies = <<>> /\ selectedGenres = <<>> /\ calls = <<>>
    /\ GroupIdle
    /\ FetchIdle
    /\ ScoreIdle
    /\ RankIdle
    /\ RecIdle
    /\ room = newRoom
    /\ handlers = <<>>
    /\ budget = [join |-> CrowdJoins, leave |-> MaxLeaves, vote |-> 0,
                 preferences |-> 1, generate |-> 0,
                 total |-> CrowdJoins + MaxLeaves + 1]

NextCrowd ==
    \/ JoinStart \/ JoinWrite
    \/ LeaveStart \/ LeaveWrite
    \/ SaveStart \/ SaveFinish

SpecCrowd == InitCrowd /\ [][NextCrowd]_vars

----------------------------------------------------------------------------
(* Recommendation calls: one call on given preferences and a retrieved pool *)

\* Movies a retrieved pool may hold: 101 and 102 differ in id only, and 103
\* has no release date.
RecMovieChoices ==
    { RoomMovie(101, <<28>>, 2008, 83, 250),
      RoomMovie(102, <<28>>, 2008, 83, 250),
      RoomMovie(103, <<18>>, NoDate, 65, 0),
      RoomMovie(104, <<12, 28>>, 2015, 90, 800) }

\* Retrieved pools: fetchCandidateMovies returns each id once.
RecPools ==
    { pool \in UNION {[1..n -> RecMovieChoices] : n \in 0..MaxPoolLen} :
        \A i, j \in DOMAIN pool : pool[i].id = pool[j].id => i = j }

\* UserPreferences as the preferences handler stores them.
StoredPreferences(c) ==
    [selectedGenres |-> c.selectedGenres,
     seedMovies |-> SeedsOf(c),
     profile |-> <<buildPreferenceProfile(SeedsOf(c), c.selectedGenres)>>]

RecPreferenceChoices ==
    LET ann == StoredPreferences([seedMovieIds |-> <<1, 2, 3>>, selectedGenres |-> <<28>>])
        bob == StoredPreferences([seedMovieIds |-> <<4, 4, 5>>, selectedGenres |-> <<18, 878>>])
    IN  { <<ann>>, <<bob>>, <<ann, bob>> }

InitRecommend ==
    /\ now = SetMax(ClockYears)
    /\ RoomIdle
    /\ seedMovies = <<>> /\ selectedGenres = <<>> /\ calls = <<>>
    /\ GroupIdle
    /\ FetchIdle
    /\ ScoreIdle
    /\ RankIdle
    /\ recArgs \in [prefs : RecPreferenceChoices, candidates : RecPools]
    /\ recResult = <<>>

\* generateRecommendations on one user's preferences.
CallGenerateRecommendations ==
    /\ recResult = <<>>
    /\ Len(recArgs.prefs) = 1
    /\ \E movies \in generateRecommendations(recArgs.prefs[1], recArgs.candidates) :
          recResult' = << [profile |-> profileOf(recArgs.prefs[1]), movies |-> movies] >>
    /\ UNCHANGED <<now, roomVars, profileVars, groupVars, fetchVars, scoreVars, rankVars, recArgs>>

\* generateGroupRecommendations on the users' preferences.
CallGenerateGroupRecommendations ==
    /\ recResult = <<>>
    /\ \E result \in generateGroupRecommendations(recArgs.prefs, recArgs.candidates) :
          recResult' = << [profile |-> aggregatedProfile(
                                          [i \in DOMAIN recArgs.prefs |-> profileOf(recArgs.prefs[i])]),
                           movies |-> result.movies] >>
    /\ UNCHANGED <<now, roomVars, profileVars, groupVars, fetchVars, scoreVars, rankVars, recArgs>>

NextRecommend == CallGenerateRecommendations \/ CallGenerateGroupRecommendations

SpecRecommend == InitRecommend /\ [][NextRecommend]_vars

----------------------------------------------------------------------------
(* Properties of the profile builder *)

\* Number of seed movies whose keyword list contains kw.
MoviesWith(seeds, kw) == Cardinality({i \in DOMAIN seeds : kw \in Range(seeds[i].keywords)})

\* C1: every returned preferredYearRange has lower bound <= upper bound and
\* both bounds within [1980, currentYear + 1], whatever the seed years are.
C1_YearRangeOrderedAndClamped ==
    \A i \in DOMAIN calls :
        LET r == calls[i].profile.preferredYearRange
            y == calls[i].at
        IN  /\ r[1] <= r[2]
            /\ FloorYear <= r[1] /\ r[1] <= y + 1
            /\ FloorYear <= r[2] /\ r[2] <= y + 1

\* C3: a keyword on exactly one of the three seed movies never appears in
\* profile.keywords, and a keyword on two or three of them always appears.
C3_KeywordRetention ==
    \A i \in DOMAIN calls :
        \A kw \in Range(AllKeywords(seedMovies)) :
            /\ MoviesWith(seedMovies, kw) = 1 => kw \notin Range(calls[i].profile.keywords)
            /\ MoviesWith(seedMovies, kw) >= 2 => kw \in Range(calls[i].profile.keywords)

IsScenario ==
    /\ [i \in 1..3 |-> seedMovies[i].runtime] = <<120, 130, 140>>
    /\ [i \in 1..3 |-> seedMovies[i].vote_average] = <<R(80, 10), R(82, 10), R(76, 10)>>
    /\ [i \in 1..3 |-> seedMovies[i].release_year] = <<1999, 2010, 2021>>
    /\ selectedGenres = <<28>>

ScenarioBasics(p) ==
    /\ p.preferredRuntime = 130
    /\ p.minRating = RSub(R(238, 30), R(15, 10))
    /\ RLe(R(643, 100), p.minRating) /\ RLt(p.minRating, R(644, 100))
    /\ 28 \in DOMAIN p.genreScores /\ RLe(Num(10), p.genreScores[28])

\* C6 (as stated): in the scenario the profile has preferredRuntime 130,
\* minRating = mean - 1.5 (about 6.43), genre 28 scored >= 10 and year range
\* [1994, 2024] for every current year >= 2021.
C6_ScenarioAsStated ==
    \A i \in DOMAIN calls :
        (IsScenario /\ calls[i].at >= 2021) =>
            /\ ScenarioBasics(calls[i].profile)
            /\ calls[i].profile.preferredYearRange = <<1994, 2024>>

\* C6 (amended): as above, but the year range is [1994, min(2024, current
\* year + 1)], which is [1994, 2024] for every current year >= 2023.
C6_ScenarioAmended ==
    \A i \in DOMAIN calls :
        (IsScenario /\ calls[i].at >= 2021) =>
            /\ ScenarioBasics(calls[i].profile)
            /\ calls[i].profile.preferredYearRange = <<1994, IntMin(2024, calls[i].at + 1)>>
            /\ calls[i].at >= 2023 => calls[i].profile.preferredYearRange = <<1994, 2024>>

C6_Witness ==
    /\ IsScenario
    /\ \E i \in DOMAIN calls : calls[i].at >= 2023
    /\ \E i \in DOMAIN calls : calls[i].at = 2021

----------------------------------------------------------------------------
(* Properties of the group aggregator *)

\* mean(seed ratings) - 1.5, from the seed movies' ratings.
MeanRatingLess15(seeds) ==
    RSub(RDivInt(SumSeq([i \in DOMAIN seeds |-> seeds[i].vote_average]), Len(seeds)),
         R(15, 10))

\* C5: every profile the builder returns has minRating = max(mean - 1.5, 6.0)
\* and so minRating >= 6.0, and the group profile aggregated from such
\* profiles has minRating >= 6.0 as well.
C5_MinRatingAtLeastSix ==
    /\ \A i \in DOMAIN allUserPreferences :
          LET u == allUserPreferences[i]
          IN  u.profile # <<>> =>
                 /\ RLe(Num(6), u.profile[1].minRating)
                 /\ u.profile[1].minRating = MathMax(MeanRatingLess15(u.seedMovies), Num(6))
    /\ groupRun # <<>> =>
          /\ \A i \in DOMAIN groupRun[1].profiles :
                RLe(Num(6), groupRun[1].profiles[i].minRating)
          /\ RLe(Num(6), groupRun[1].aggregatedProfile.minRating)

\* Several users aggregated, one of them with seed ratings so low that the
\* floor decides, one built on demand.
C5_Witness ==
    /\ groupRun # <<>>
    /\ Len(groupRun[1].profiles) >= 2
    /\ \E i \in DOMAIN allUserPreferences :
          /\ RLt(MeanRatingLess15(allUserPreferences[i].seedMovies), Num(6))
          /\ allUserPreferences[i].profile # <<>>
    /\ \E i \in DOMAIN allUserPreferences : allUserPreferences[i].profile = <<>>

\* C9: the group's year range is [min of the users' lower bounds, max of the
\* users' upper bounds]; ranges [1990,2000] and [2010,2020] give [1990,2020].
C9_GroupYearRangeIsUnion ==
    groupRun # <<>> =>
        LET ps == groupRun[1].profiles
            r == groupRun[1].aggregatedProfile.preferredYearRange
        IN  /\ \A i \in DOMAIN ps : r[1] <= ps[i].preferredYearRange[1]
            /\ \E i \in DOMAIN ps : r[1] = ps[i].preferredYearRange[1]
            /\ \A i \in DOMAIN ps : r[2] >= ps[i].preferredYearRange[2]
            /\ \E i \in DOMAIN ps : r[2] = ps[i].preferredYearRange[2]
            /\ {ps[i].preferredYearRange : i \in DOMAIN ps}
                    = {<<1990, 2000>>, <<2010, 2020>>} => r = <<1990, 2020>>

C9_Witness ==
    /\ groupRun # <<>>
    /\ Len(groupRun[1].profiles) = 2
    /\ groupRun[1].profiles[1].preferredYearRange = <<1990, 2000>>
    /\ groupRun[1].profiles[2].preferredYearRange = <<2010, 2020>>
    /\ groupRun[1].aggregatedProfile.preferredYearRange = <<1990, 2020>>

----------------------------------------------------------------------------
(* Properties of the candidate retriever *)

AllSettled ==
    /\ requests # <<>>
    /\ \A i \in DOMAIN requests : requests[i].status # "pending"

\* The movies of the fulfilled pages, in page order.
FulfilledMovies == Concat([i \in DOMAIN requests |-> requests[i].movies])

\* C2: when some page fetches fail and at least one succeeds, the call
\* returns normally with the movies of the successful pages; it throws only
\* when every issued page fetch fails.
C2_FailsSoftly ==
    AllSettled =>
        /\ (\E i \in DOMAIN requests : requests[i].status = "fulfilled") =>
               /\ fetchPc = "returned"
               /\ {fetchResult[k].id : k \in DOMAIN fetchResult}
                      \subseteq {FulfilledMovies[k].id : k \in DOMAIN FulfilledMovies}
        /\ fetchPc = "threw" =>
               \A i \in DOMAIN requests : requests[i].status = "rejected"

\* C7: the returned sequence holds each movie id at most once, in the order
\* of the ids' first occurrences over pages 1, 2, ..., and has at most
\* maxMovies elements.
C7_UniqueFirstSeenBounded ==
    fetchPc = "returned" =>
        LET all == FulfilledMovies
            res == fetchResult
            firstAt(id) == SetMin({i \in DOMAIN all : all[i].id = id})
            inRes(id) == \E a \in DOMAIN res : res[a].id = id
        IN  /\ \A a, b \in DOMAIN res : a # b => res[a].id # res[b].id
            /\ \A a \in DOMAIN res : \E i \in DOMAIN all : all[i].id = res[a].id
            /\ \A a, b \in DOMAIN res : a < b => firstAt(res[a].id) < firstAt(res[b].id)
            /\ \A i \in DOMAIN all, a \in DOMAIN res :
                  firstAt(all[i].id) < firstAt(res[a].id) => inRes(all[i].id)
            /\ Len(res) <= fetchArgs.maxMovies
            /\ Len(res) < fetchArgs.maxMovies => \A i \in DOMAIN all : inRes(all[i].id)

\* Two pages hold the same id, and the pool holds it once, after another id.
C7_Witness ==
    /\ fetchPc = "returned"
    /\ Len(requests) >= 2
    /\ Len(fetchResult) = 2
    /\ \E a \in DOMAIN requests[1].movies, b \in DOMAIN requests[2].movies :
          /\ requests[1].movies[a].id = requests[2].movies[b].id
          /\ fetchResult[2].id = requests[1].movies[a].id

----------------------------------------------------------------------------
(* Properties of the scorer *)

\* m2 is m1 with one more genre id and every other field unchanged.
OneMoreGenre(m1, m2) ==
    /\ Len(m2.genre_ids) = Len(m1.genre_ids) + 1
    /\ m1 = [m2 EXCEPT !.genre_ids = SubSeq(@, 1, Len(@) - 1)]

\* C8: adding one genre id to a movie never decreases scoreMovie's result,
\* and the genre component never exceeds 30.
C8_MonotonicInGenres ==
    /\ \A i, j \in DOMAIN scoreLog :
          OneMoreGenre(scoreLog[i].movie, scoreLog[j].movie) =>
              /\ ~RLt(scoreLog[j].score, scoreLog[i].score)
              /\ IsNaN(scoreLog[j].score) <=> IsNaN(scoreLog[i].score)
    /\ \A i \in DOMAIN scoreLog :
          RLe(genreMatch(scoreLog[i].movie, scoreArgs.profile), Num(30))

\* A matching genre was added and the score rose.
C8_Witness ==
    \E i, j \in DOMAIN scoreLog :
        /\ OneMoreGenre(scoreLog[i].movie, scoreLog[j].movie)
        /\ scoreLog[j].movie.genre_ids[Len(scoreLog[j].movie.genre_ids)]
              \in DOMAIN scoreArgs.profile.genreScores
        /\ RLt(scoreLog[i].score, scoreLog[j].score)

----------------------------------------------------------------------------
(* Properties of the ranking utility *)

\* The claimed order puts a before b: higher rating; or equal rating and a
\* later release year; or equal rating, the same release date (or none on
\* either) and more genre ids among the selected genres.
RanksBefore(a, b, sel) ==
    \/ RLt(b.vote_average, a.vote_average)
    \/ /\ a.vote_average = b.vote_average
       /\ RLt(getFullYear(b.release_date), getFullYear(a.release_date))
    \/ /\ a.vote_average = b.vote_average
       /\ a.release_date = b.release_date
       /\ genreMatchCount(a, sel) > genreMatchCount(b, sel)

IsPermutation(s, t) ==
    /\ Len(s) = Len(t)
    /\ \E p \in Perms(Len(s)) : \A i \in DOMAIN s : t[i] = s[p[i]]

\* C10: rankMovies returns a permutation of its input ordered by rating
\* descending, then release year descending, then genre overlap descending.
C10_RankedByRatingYearOverlap ==
    rankResult # <<>> =>
        /\ IsPermutation(rankArgs.movies, rankResult[1])
        /\ \A i, j \in DOMAIN rankResult[1] :
              i < j => ~RanksBefore(rankResult[1][j], rankResult[1][i],
                                    rankArgs.selectedGenres)

----------------------------------------------------------------------------
(* Properties of the genre-score accumulation *)

GenreOccurrences(seeds, g) ==
    Cardinality({i \in DOMAIN AllGenreIds(seeds) : AllGenreIds(seeds)[i] = g})

----------------------------------------------------------------------------
(* Properties of the fan-out in fetchCandidateMovies *)

\* C17: all page requests are issued together before the caller suspends,
\* and the caller has resumed (returned or thrown) only when every issued
\* page request has settled.
C17_ResumesAfterAllSettled ==
    /\ fetchPc # "idle" => Len(requests) = requestCount(fetchArgs.maxMovies)
    /\ fetchPc \in {"returned", "threw"} => AllSettled

----------------------------------------------------------------------------
(* Properties of input validation *)

\* C11: no profile is ever built from a number of seed movies other than 3
\* or from an empty genre set: not by the preferences handler, which answers
\* such a body with an error and writes nothing, and not on demand by
\* generateGroupRecommendations for stored preferences without a profile.
C11_MalformedInputBuildsNoProfile ==
    /\ \A i \in DOMAIN handlers :
           (handlers[i].kind = "preferences" /\ ~WellFormed(handlers[i].args)) =>
               /\ handlers[i].status = 400
               /\ handlers[i].writes = 0
               /\ handlers[i].work = <<>>
    /\ groupRun # <<>> =>
           \A i \in DOMAIN allUserPreferences :
               allUserPreferences[i].profile = <<>> =>
                   /\ Len(allUserPreferences[i].seedMovies) = 3
                   /\ allUserPreferences[i].selectedGenres # <<>>

----------------------------------------------------------------------------
(* Properties of the generate-recommendations handler *)

\* The participants of a room that have completed preferences.
ReadyIn(r) == {k \in DOMAIN r.participants : r.participants[k].hasCompletedPreferences}

Generated == {i \in DOMAIN handlers : handlers[i].kind = "generate" /\ handlers[i].status = 200}

\* C14: a generate request writes the room at most once, and not at all when
\* it fails; what it writes is the whole result: every candidate of the pool
\* is in the list and has its score.  So the stored movieList and
\* recommendationScores are those of the created room until a request
\* succeeds, and from then on the result of one successful request, never a
\* part or a mix.
C14_WholeResultWrittenOnce ==
    /\ \A i \in DOMAIN handlers :
           handlers[i].kind = "generate" =>
               /\ handlers[i].writes <= 1
               /\ handlers[i].writes = 1 <=> handlers[i].status = 200
               /\ handlers[i].status = 200 =>
                      LET w == handlers[i].work[1]
                      IN  /\ IsPermutation(w.candidates, w.result.movies)
                          /\ DOMAIN w.result.scores =
                                 {w.candidates[k].id : k \in DOMAIN w.candidates}
    /\ <<room.movieList, room.recommendationScores>> \in
           IF Generated = {}
           THEN {<<newRoom.movieList, newRoom.recommendationScores>>}
           ELSE {<<handlers[i].work[1].result.movies, handlers[i].work[1].result.scores>> :
                    i \in Generated}

\* A generate request has succeeded and the room holds its two-movie list.
C14_Witness ==
    \E i \in Generated :
        /\ Len(room.movieList) = 2
        /\ room.movieList = handlers[i].work[1].result.movies
        /\ room.recommendationScores = handlers[i].work[1].result.scores

----------------------------------------------------------------------------
(* Properties of concurrent requests on one room *)

OfKind(kind) == {i \in DOMAIN handlers : handlers[i].kind = kind}

\* C15: when a vote request and a generate request, the only requests that
\* write votes or movieList, have both succeeded, in whatever order their
\* reads and writes interleaved, the room holds the vote and the generated list.
C15_VoteAndListBothKept ==
    \A v \in OfKind("vote"), g \in OfKind("generate") :
        (/\ OfKind("vote") = {v} /\ OfKind("generate") = {g} /\ OfKind("leave") = {}
         /\ handlers[v].status = 200
         /\ handlers[g].status = 200) =>
            /\ handlers[v].args.participantId \in DOMAIN room.votes
            /\ handlers[v].args.movieId \in DOMAIN room.votes[handlers[v].args.participantId]
            /\ room.votes[handlers[v].args.participantId][handlers[v].args.movieId]
                   = handlers[v].args.voteType
            /\ room.movieList = handlers[g].work[1].result.movies

\* A vote request read the room before a generate request wrote it and wrote
\* after it; both succeeded.
C15_Witness ==
    \E v \in OfKind("vote"), g \in OfKind("generate") :
        /\ OfKind("vote") = {v} /\ OfKind("generate") = {g} /\ OfKind("leave") = {}
        /\ handlers[v].status = 200
        /\ handlers[g].status = 200
        /\ room.votes # <<>>
        /\ room.movieList # <<>>
        /\ room.watchlist = <<>>
        /\ handlers[v].args.voteType \in {"liked", "maybe"}
        /\ \E k \in DOMAIN room.movieList : room.movieList[k].id = handlers[v].args.movieId

\* C16: when the preferences requests of two different participants have
\* both succeeded, in whatever order their reads and writes interleaved, and
\* nobody has left, the room holds both userPreferences entries and both
\* participants are marked hasCompletedPreferences.
C16_ConcurrentSavesBothKept ==
    \A a, b \in OfKind("preferences") :
        (/\ handlers[a].args.participantId # handlers[b].args.participantId
         /\ handlers[a].status = 200
         /\ handlers[b].status = 200
         /\ OfKind("leave") = {}) =>
            \A q \in {handlers[a].args.participantId, handlers[b].args.participantId} :
                /\ q \in DOMAIN room.userPreferences
                /\ \E k \in DOMAIN room.participants :
                       /\ room.participants[k].id = q
                       /\ room.participants[k].hasCompletedPreferences

----------------------------------------------------------------------------
(* Properties of the room's capacity *)

\* "Max 5 participants"
MaxParticipants == 5

\* C18: whatever join, leave and preferences requests have been made, the
\* room has at most 5 participants.
C18_AtMostFiveParticipants == Len(room.participants) <= MaxParticipants

----------------------------------------------------------------------------
(* Properties of the watchlist *)

\* The movies of r.movieList with a 'liked' or 'maybe' vote among the stored
\* votes of r's participants, in list order.
ExpectedWatchlist(r) ==
    LET present == {r.participants[k].id : k \in DOMAIN r.participants}
        wanted(movie) ==
            \E q \in DOMAIN r.votes \cap present :
                /\ movie.id \in DOMAIN r.votes[q]
                /\ r.votes[q][movie.id] \in {"liked", "maybe"}
    IN  SelectSeq(r.movieList, wanted)

\* C19: the step in which a vote or leave request succeeds leaves the stored
\* watchlist equal to the movies of the stored movieList that a remaining
\* participant's stored vote likes or may like, each once, in list order.
C19_WatchlistMatchesVotes ==
    [][ (\E i \in DOMAIN handlers :
            /\ handlers[i].kind \in {"vote", "leave"}
            /\ handlers[i].pc = "pending"
            /\ handlers'[i].status = 200)
        => /\ room'.watchlist = ExpectedWatchlist(room')
           /\ \A j, k \in DOMAIN room'.watchlist :
                  room'.watchlist[j].id = room'.watchlist[k].id => j = k ]_vars

----------------------------------------------------------------------------
(* Properties of the score's components *)

\* The five components as documented, for a movie with a release year:
\* genre match, runtime similarity, year proximity, rating bonus, popularity.
FiveComponents(movie, profile) ==
    LET least(x, y) == IF RLe(x, y) THEN x ELSE y
        greatest(x, y) == IF RLe(x, y) THEN y ELSE x
        weight(g) == IF g \in DOMAIN profile.genreScores
                     THEN profile.genreScores[g] ELSE Num(0)
        genres == least(SumSeq([k \in DOMAIN movie.genre_ids |->
                                   weight(movie.genre_ids[k])]), Num(30))
        runtime == IF movie.runtime = 0 THEN Num(0)
                   ELSE greatest(R(100 - Abs(movie.runtime - profile.preferredRuntime), 10),
                                 Num(0))
        year == greatest(R(100 - Abs(2 * movie.release_date
                                        - profile.preferredYearRange[1]
                                        - profile.preferredYearRange[2]), 10),
                         Num(0))
        rating == least(greatest(RMulInt(RSub(movie.vote_average, profile.minRating), 2),
                                 Num(0)),
                        Num(10))
        popularity == IF movie.popularity = 0 THEN Num(0)
                      ELSE least(R(movie.popularity, 100), Num(5))
    IN  <<genres, runtime, year, rating, popularity>>

C22_ScoreWithinZeroAndSixtyFive ==
    \A i \in DOMAIN scoreLog :
        /\ ~IsNaN(scoreLog[i].score)
        /\ RLe(Num(0), scoreLog[i].score)
        /\ RLe(scoreLog[i].score, Num(65))

----------------------------------------------------------------------------
(* Properties of the group profile's genres and keywords *)

\* The users whose profile scores genre g.
Mentioning(profiles, g) == {i \in DOMAIN profiles : g \in DOMAIN profiles[i].genreScores}

\* C23: the group profile scores exactly the genres some user scores, and N
\* times a genre's group score is the sum of the users' scores for it, N being
\* the number of users passed in and a user without the genre adding nothing.
C23_GroupGenreScoreIsMeanOverAll ==
    groupRun # <<>> =>
        LET profiles == groupRun[1].profiles
            group == groupRun[1].aggregatedProfile.genreScores
            N == Len(allUserPreferences)
        IN  /\ Len(profiles) = N
            /\ DOMAIN group = UNION {DOMAIN profiles[i].genreScores : i \in DOMAIN profiles}
            /\ \A g \in DOMAIN group :
                  RMulInt(group[g], N) =
                      SumSeq([k \in 1..Cardinality(Mentioning(profiles, g)) |->
                                 profiles[Ascending(Mentioning(profiles, g))[k]].genreScores[g]])

\* Three users were aggregated and some genre is scored by only one of them.
C23_Witness ==
    /\ groupRun # <<>>
    /\ Len(groupRun[1].profiles) = 3
    /\ \E g \in DOMAIN groupRun[1].aggregatedProfile.genreScores :
          /\ Cardinality(Mentioning(groupRun[1].profiles, g)) = 1
          /\ \E i \in Mentioning(groupRun[1].profiles, g) :
                RMulInt(groupRun[1].aggregatedProfile.genreScores[g], 3)
                    = groupRun[1].profiles[i].genreScores[g]

\* The users whose profile lists keyword kw.
Listing(profiles, kw) == {i \in DOMAIN profiles : kw \in Range(profiles[i].keywords)}

\* C24: a keyword is among the group profile's keywords exactly when it is
\* among the keywords of at least ceil(N/2) of the N users' profiles.
C24_KeywordKeptByHalfOfUsers ==
    groupRun # <<>> =>
        LET profiles == groupRun[1].profiles
            kept == Range(groupRun[1].aggregatedProfile.keywords)
            N == Len(profiles)
        IN  /\ kept \subseteq UNION {Range(profiles[i].keywords) : i \in DOMAIN profiles}
            /\ \A kw \in UNION {Range(profiles[i].keywords) : i \in DOMAIN profiles} :
                  kw \in kept <=> 2 * Cardinality(Listing(profiles, kw)) >= N

\* Of three users, two list one keyword and one lists another: the first is
\* kept and the second is not.
C24_Witness ==
    /\ groupRun # <<>>
    /\ Len(groupRun[1].profiles) = 3
    /\ \E kw \in Range(groupRun[1].aggregatedProfile.keywords) :
          Cardinality(Listing(groupRun[1].profiles, kw)) = 2
    /\ \E i \in 1..3 : \E kw \in Range(groupRun[1].profiles[i].keywords) :
          /\ Cardinality(Listing(groupRun[1].profiles, kw)) = 1
          /\ kw \notin Range(groupRun[1].aggregatedProfile.keywords)

----------------------------------------------------------------------------
(* Properties of the recommendation calls *)

\* Position of the movie with the given id in the retrieved pool.
PoolIndex(id) == CHOOSE i \in DOMAIN recArgs.candidates : recArgs.candidates[i].id = id

\* C25: the returned sequence holds the retrieved candidates, each once, in
\* non-increasing order of their score against the profile used, and
\* candidates of equal score in the order the pool had them.
C25_StableDescendingByScore ==
    recResult # <<>> =>
        LET movies == recResult[1].movies
            score(m) == scoreMovie(m, recResult[1].profile)
        IN  /\ IsPermutation(movies, recArgs.candidates)
            /\ \A i, j \in DOMAIN movies :
                  i < j => /\ RLe(score(movies[j]), score(movies[i]))
                           /\ score(movies[i]) = score(movies[j])
                                 => PoolIndex(movies[i].id) < PoolIndex(movies[j].id)

----------------------------------------------------------------------------
(* Properties of the retriever's query *)

\* Position of x in the sequence s of distinct elements.
IndexIn(s, x) == CHOOSE i \in DOMAIN s : s[i] = x

\* ids are the (at most) 5 best-scored genres of scores, best first, a tie
\* going to the genre that comes first in order.
IsTopFive(ids, scores, order) ==
    LET before(x, y) == \/ RLt(scores[y], scores[x])
                        \/ scores[x] = scores[y] /\ IndexIn(order, x) < IndexIn(order, y)
    IN  /\ Len(ids) = IntMin(5, Cardinality(DOMAIN scores))
        /\ Range(ids) \subseteq DOMAIN scores
        /\ \A i, j \in DOMAIN ids : i < j => before(ids[i], ids[j])
        /\ \A g \in DOMAIN scores \ Range(ids) : \A i \in DOMAIN ids : before(ids[i], g)

\* Requests for which a profile was built: seed ids and explicit genres.
BuilderInputs ==
    { [seedMovieIds |-> <<1, 2, 3>>, selectedGenres |-> <<28>>],
      [seedMovieIds |-> <<1, 2, 3>>, selectedGenres |-> <<28, 12, 18, 878, 35, 16>>] }

\* The order in which buildPreferenceProfile assigns the genres their first
\* score: explicit genres as selected, then seed genres as first met.
InsertionOrder(c) == FirstSeen(c.selectedGenres \o AllGenreIds(SeedsOf(c)), {})

\* C26 as stated: every request carries the (at most) 5 best-scored genres
\* of the profile, ties going to the genre inserted first into the mapping
\* (explicit genres in selection order, then seed genres by first appearance).
C26_TopFiveTiesByInsertion ==
    \A c \in BuilderInputs : \A i \in DOMAIN requests :
        fetchArgs.profile = buildPreferenceProfile(SeedsOf(c), c.selectedGenres) =>
            IsTopFive(requests[i].params.genreIds, fetchArgs.profile.genreScores,
                      InsertionOrder(c))

\* C26 amended: every request carries the (at most) 5 best-scored genres of
\* the profile, ties going to the smaller genre id.
C26_TopFiveTiesByGenreId ==
    \A i \in DOMAIN requests :
        IsTopFive(requests[i].params.genreIds, fetchArgs.profile.genreScores,
                  Ascending(DOMAIN fetchArgs.profile.genreScores))

\* Requests were issued for a profile of six genres, four of them tied on
\* the lowest score: one of the four is left out.
C26_Witness ==
    /\ requests # <<>>
    /\ Cardinality(DOMAIN fetchArgs.profile.genreScores) = 6
    /\ Len(requests[1].params.genreIds) = 5
    /\ \E g \in DOMAIN fetchArgs.profile.genreScores \ Range(requests[1].params.genreIds) :
          \E k \in DOMAIN requests[1].params.genreIds :
              fetchArgs.profile.genreScores[requests[1].params.genreIds[k]]
                  = fetchArgs.profile.genreScores[g]

\* C27: once fetchCandidateMovies has issued its requests there are exactly
\* min(ceil(T/20), 10) of them for target size T, the i-th for page i, and
\* every one carries the profile's top genres, minimum vote count 300, the
\* profile's minimum rating and its year bounds; none is added later.
C27_RequestCountAndFilters ==
    fetchPc # "idle" =>
        LET T == fetchArgs.maxMovies
            pages == CHOOSE k \in 0..T : 20 * k >= T /\ 20 * (k - 1) < T
        IN  /\ Len(requests) = IF pages > 10 THEN 10 ELSE pages
            /\ \A i \in DOMAIN requests :
                  /\ requests[i].params.page = i
                  /\ requests[i].params.genreIds = requests[1].params.genreIds
                  /\ IsTopFive(requests[i].params.genreIds, fetchArgs.profile.genreScores,
                               Ascending(DOMAIN fetchArgs.profile.genreScores))
                  /\ requests[i].params.minVoteCount = 300
                  /\ requests[i].params.minVoteAverage = fetchArgs.profile.minRating
                  /\ requests[i].params.minYear = fetchArgs.profile.preferredYearRange[1]
                  /\ requests[i].params.maxYear = fetchArgs.profile.preferredYearRange[2]

\* The group call for 300 movies has returned after ten requests.
C27_Witness ==
    /\ fetchArgs.maxMovies = 300
    /\ fetchPc = "returned"
    /\ Len(requests) = 10

----------------------------------------------------------------------------
(* Properties of the preferences a generation aggregates *)

\* C28: a successful generate-recommendations request aggregates one
\* UserPreferences per participant of the room it read and none of anyone
\* else, whatever join, preferences and leave requests came before.
C28_AggregatesCurrentParticipantsOnly ==
    \A i \in Generated :
        LET prefs == handlers[i].work[1].prefs
            participants == handlers[i].snap[1].participants
        IN  /\ Len(prefs) = Len(participants)
            /\ {prefs[k].participantId : k \in DOMAIN prefs}
                  = {participants[k].id : k \in DOMAIN participants}

----------------------------------------------------------------------------
(* Properties of the record a deduplicated id keeps *)

\* C29 as stated: every record of the returned pool is the first one the
\* pages, taken in page order, hold for its id.
C29_FirstSeenRecordKept ==
    fetchPc = "returned" =>
        \A a \in DOMAIN fetchResult :
            fetchResult[a] =
                FulfilledMovies[SetMin({i \in DOMAIN FulfilledMovies :
                                           FulfilledMovies[i].id = fetchResult[a].id})]

\* C29 amended: every record of the returned pool is the last one the pages,
\* taken in page order, hold for its id.
C29_LastSeenRecordKept ==
    fetchPc = "returned" =>
        \A a \in DOMAIN fetchResult :
            fetchResult[a] =
                FulfilledMovies[SetMax({i \in DOMAIN FulfilledMovies :
                                           FulfilledMovies[i].id = fetchResult[a].id})]

\* Pages 1 and 2 both hold an id, and the pool holds page 2's record of it.
C29_Witness ==
    /\ fetchPc = "returned"
    /\ Len(requests) >= 2
    /\ \E a \in DOMAIN fetchResult, b \in DOMAIN requests[1].movies :
          /\ requests[1].movies[b].id = fetchResult[a].id
          /\ fetchResult[a].page = 2

----------------------------------------------------------------------------
(* Properties of concurrent votes *)

\* C30: when the vote requests of two different participants have both
\* succeeded, in whatever order their reads and writes interleaved, and nobody
\* has left, the stored votes hold both participants' votes.
C30_ConcurrentVotesBothKept ==
    \A a, b \in OfKind("vote") :
        (/\ handlers[a].args.participantId # handlers[b].args.participantId
         /\ handlers[a].status = 200
         /\ handlers[b].status = 200
         /\ \A v \in {a, b} : \E k \in DOMAIN room.participants :
                room.participants[k].id = handlers[v].args.participantId
         /\ OfKind("leave") = {}) =>
            \A v \in {a, b} :
                /\ handlers[v].args.participantId \in DOMAIN room.votes
                /\ handlers[v].args.movieId \in DOMAIN room.votes[handlers[v].args.participantId]
                /\ room.votes[handlers[v].args.participantId][handlers[v].args.movieId]
                      = handlers[v].args.voteType

====
